---- MODULE Spec2Model ----
(***************************************************************************)
(* git-queue: the queue state (git-queue/src/queue/log.rs), the queue log  *)
(* it is persisted in, and the queue facade (git-queue/src/queue.rs) with  *)
(* the `close` command (src/commands/close.rs).                            *)
(*                                                                         *)
(* Object ids are strings.  The repository holds a fixed set of ordinary   *)
(* commits (Commits) and the log entries the program writes (log).         *)
(* An absent Option is the empty sequence, a present one a 1-sequence.     *)
(***************************************************************************)
EXTENDS Integers, Sequences, FiniteSets, TLC

VARIABLES
    qs,        \* SpecState: the QueueState entry being mutated in memory
    log,       \* object store: log entry oid -> [parents, tree]
    nextId,    \* number of log entry commits written so far
    branches,  \* refs/heads/queues/<Q>: queue -> <<>> or <<oid>>
    logrefs,   \* refs/queuelogs/<Q>:    queue -> <<>> or <<oid>>
    HEAD,      \* the reference HEAD points to, by full name
    worktree,  \* the commit whose tree the working directory was last checked out from
    held,      \* the Queue facade the caller holds: <<>> or <<queue>>
    switching, \* a `switch --create` between its for_queue and its initialize
    last       \* the last operation and what it returned

vars == <<qs, log, nextId, branches, logrefs, HEAD, worktree, held, switching, last>>

repoVars == <<log, nextId, branches, logrefs, HEAD, worktree, held, switching>>

-----------------------------------------------------------------------------
(* Bounds *)

\* log entry commits written in one behaviour
MaxLog == 3

\* patch names in applied and unapplied together (SpecState)
MaxPatches == 3

-----------------------------------------------------------------------------
(* The repository the program runs in *)

Names == {"a", "b", "c"}

Queues == {"work"}

\* Ordinary commits: C0 is the tip of main, C1 of dev; P1..P3 are patch commits.
Commits == {"C0", "C1", "P1", "P2", "P3"}

\* An object id that names no commit (find_commit fails on it).
NotACommit == "T0"

\* The commits upsert_patch is handed in SpecState
PatchOids == {"P1", "P3"}

\* Parents of the ordinary commits: P1 and P2 (P1 amended) sit on C0, P3 on P1.
CommitParents(oid) ==
    CASE oid = "C0" -> <<>>
      [] oid = "C1" -> <<"C0">>
      [] oid = "P1" -> <<"C0">>
      [] oid = "P2" -> <<"C0">>
      [] oid = "P3" -> <<"P1">>
      [] OTHER -> <<>>

\* The tree of an ordinary commit: one tracked file.
CommitTree(oid) == [p \in {"README"} |-> oid]

\* The base branches, by full reference name, and their tips.
BaseBranches == {<<"refs", "heads", "main">>, <<"refs", "heads", "dev">>}

BranchTip(ref) == IF ref = <<"refs", "heads", "main">> THEN "C0" ELSE "C1"

\* The branches the user has beside the queue branches: the base branches and
\* feature/queues/work, a branch of the user's own at the tip of dev.
UserBranches == BaseBranches \cup {<<"refs", "heads", "feature", "queues", "work">>}

\* git2::Branch::name: the reference name without its refs/heads/ prefix.
BranchName(ref) == SubSeq(ref, 3, Len(ref))

\* Queue::gitref_name, as the full name of the branch reference.
QueueBranchRef(q) == <<"refs", "heads", "queues", q>>

\* QueueState::gitref_name
LogRefName(q) == <<"refs", "queuelogs", q>>

-----------------------------------------------------------------------------
(* QueueState: the in-memory operations (log.rs) *)

Last(s) == s[Len(s)]

Front(s) == SubSeq(s, 1, Len(s) - 1)

Range(s) == {s[i] : i \in DOMAIN s}

\* HashMap::insert
MapInsert(m, k, v) == [x \in (DOMAIN m) \cup {k} |-> IF x = k THEN v ELSE m[x]]

\* HashMap::remove
MapRemove(m, k) == [x \in (DOMAIN m) \ {k} |-> m[x]]

\* Vec position of the first element equal to x, 0 when there is none
Position(s, x) ==
    IF x \in Range(s) THEN CHOOSE i \in DOMAIN s : s[i] = x /\ \A j \in 1..(i - 1) : s[j] # x
    ELSE 0

\* The entry QueueState::new builds.
NewEntry(base_oid, base_name) ==
    [ message   |-> "initialise stack log",
      previous  |-> <<>>,
      head      |-> base_oid,
      base_name |-> base_name,
      base      |-> base_oid,
      applied   |-> <<>>,
      unapplied |-> <<>>,
      patches   |-> <<>> ]

has_patch(e, name) == name \in DOMAIN e.patches

patches_num(e) == Cardinality(DOMAIN e.patches)

\* pop's get_parent argument: the parent of the given commit, or an error (<<>>).
\* gp = "err" is the oracle failing.
get_parent(oid, gp) ==
    IF gp = "ok" /\ CommitParents(oid) # <<>> THEN <<CommitParents(oid)[1]>> ELSE <<>>

\* QueueState::pop.  Returns the status and the entry as the call leaves it;
\* indexing patches with a name it does not hold panics.
pop(e, gp) ==
    IF e.applied = <<>> THEN [status |-> "ok", e |-> e]
    ELSE LET patch == Last(e.applied)
             e0 == [e EXCEPT !.applied = Front(e.applied)]
         IN
         IF patch \notin DOMAIN e.patches THEN [status |-> "panic", e |-> e0]
         ELSE LET patch_oid == e.patches[patch]
                  e1 == [e0 EXCEPT !.unapplied = Append(e.unapplied, patch)]
              IN IF e1.applied # <<>>
                 THEN IF Last(e1.applied) \notin DOMAIN e1.patches
                      THEN [status |-> "panic", e |-> e1]
                      ELSE [status |-> "ok",
                            e |-> [e1 EXCEPT !.head = e1.patches[Last(e1.applied)]]]
                 ELSE IF get_parent(patch_oid, gp) = <<>>
                      THEN [status |-> "err", e |-> e1]
                      ELSE [status |-> "ok",
                            e |-> [e1 EXCEPT !.head = get_parent(patch_oid, gp)[1]]]

\* A push that moves the name and leaves head where it was.
push_KeepsHead(e) ==
    IF e.unapplied = <<>> THEN [status |-> "ok", e |-> e]
    ELSE LET patch == Last(e.unapplied)
             e0 == [e EXCEPT !.unapplied = Front(e.unapplied)]
         IN
         IF patch \notin DOMAIN e.patches THEN [status |-> "panic", e |-> e0]
         ELSE [status |-> "ok", e |-> [e0 EXCEPT !.applied = Append(e.applied, patch)]]

\* QueueState::push
push(e) ==
    IF e.unapplied = <<>> THEN [status |-> "ok", e |-> e]
    ELSE LET patch == Last(e.unapplied)
             e0 == [e EXCEPT !.unapplied = Front(e.unapplied)]
         IN
         IF patch \notin DOMAIN e.patches THEN [status |-> "panic", e |-> e0]
         ELSE [status |-> "ok",
               e |-> [e0 EXCEPT !.head = e.patches[patch],
                                !.applied = Append(e.applied, patch)]]

\* k calls of pop, each with a get_parent that answers, up to the first that
\* does not return Ok
RECURSIVE PopTimes(_, _)
PopTimes(e, k) ==
    IF k = 0 THEN [status |-> "ok", e |-> e]
    ELSE LET r == pop(e, "ok") IN
         IF r.status # "ok" THEN r ELSE PopTimes(r.e, k - 1)

\* k calls of push
RECURSIVE PushTimes(_, _)
PushTimes(e, k) ==
    IF k = 0 THEN [status |-> "ok", e |-> e]
    ELSE LET r == push(e) IN
         IF r.status # "ok" THEN r ELSE PushTimes(r.e, k - 1)

\* A rename_patch that takes the old name out of its list and puts the new
\* one at the end.
rename_patch_AtEnd(e, old_name, new_name) ==
    IF ~has_patch(e, old_name) THEN [status |-> "panic", e |-> e]
    ELSE LET patch_oid == e.patches[old_name]
             ps == MapInsert(MapRemove(e.patches, old_name), new_name, patch_oid)
             ia == Position(e.applied, old_name)
             iu == Position(e.unapplied, old_name)
             without(l, i) == SubSeq(l, 1, i - 1) \o SubSeq(l, i + 1, Len(l))
         IN [status |-> "ok",
             e |-> [e EXCEPT
                 !.patches = ps,
                 !.applied = IF ia # 0 THEN Append(without(e.applied, ia), new_name)
                             ELSE e.applied,
                 !.unapplied = IF ia = 0 /\ iu # 0
                               THEN Append(without(e.unapplied, iu), new_name)
                               ELSE e.unapplied]]

\* QueueState::rename_patch
rename_patch(e, old_name, new_name) ==
    IF ~has_patch(e, old_name) THEN [status |-> "panic", e |-> e]
    ELSE LET patch_oid == e.patches[old_name]
             ps == MapInsert(MapRemove(e.patches, old_name), new_name, patch_oid)
             ia == Position(e.applied, old_name)
             iu == Position(e.unapplied, old_name)
         IN [status |-> "ok",
             e |-> [e EXCEPT
                 !.patches = ps,
                 !.applied = IF ia # 0 THEN [e.applied EXCEPT ![ia] = new_name]
                             ELSE e.applied,
                 !.unapplied = IF ia = 0 /\ iu # 0
                               THEN [e.unapplied EXCEPT ![iu] = new_name]
                               ELSE e.unapplied]]

\* QueueState::upsert_patch
upsert_patch(e, patch, commit) ==
    [status |-> "ok",
     e |-> [e EXCEPT
         !.applied = IF ~has_patch(e, patch) THEN Append(e.applied, patch) ELSE e.applied,
         !.patches = MapInsert(e.patches, patch, commit)]]

-----------------------------------------------------------------------------
(* SpecState: a QueueState fresh from QueueState::new, then any sequence of *)
(* push, pop, rename_patch and upsert_patch on it.                          *)

NoOp == [op |-> "none", queue |-> "", outcome |-> "", checkout |-> <<>>]

\* What an operation leaves in `last`: its name, its queue and what it returned
\* (for list, the item yielded for the queue); for switch_to also the checkout
\* it asked the repository for.
Op(op, queue, outcome) == [op |-> op, queue |-> queue, outcome |-> outcome, checkout |-> <<>>]

RepoInit ==
    /\ log = <<>>
    /\ nextId = 0
    /\ branches = [q \in Queues |-> <<>>]
    /\ logrefs = [q \in Queues |-> <<>>]
    /\ HEAD = <<"refs", "heads", "dev">>
    /\ worktree = "C1"
    /\ held = <<>>
    /\ switching = <<>>

InitState ==
    /\ \E b \in BaseBranches : qs = NewEntry(BranchTip(b), BranchName(b))
    /\ last = NoOp
    /\ RepoInit

StPop ==
    \E gp \in {"ok", "err"} :
        LET r == pop(qs, gp) IN
        /\ r.status # "panic"
        /\ qs' = r.e
        /\ last' = Op("pop", "", r.status)
        /\ UNCHANGED repoVars

StPush ==
    LET r == push(qs) IN
    /\ r.status # "panic"
    /\ qs' = r.e
    /\ last' = Op("push", "", r.status)
    /\ UNCHANGED repoVars

\* rename_patch panics, leaving the state as it was, when old_name is not tracked
StRename ==
    \E old_name \in Names, new_name \in Names :
        LET r == rename_patch(qs, old_name, new_name) IN
        /\ qs' = r.e
        /\ last' = Op("rename_patch", "", r.status)
        /\ UNCHANGED repoVars

StUpsert ==
    \E patch \in Names, commit \in PatchOids :
        LET r == upsert_patch(qs, patch, commit) IN
        /\ Len(qs.applied) + Len(qs.unapplied) < MaxPatches \/ has_patch(qs, patch)
        /\ qs' = r.e
        /\ last' = Op("upsert_patch", "", r.status)
        /\ UNCHANGED repoVars

NextState == StPop \/ StPush \/ StRename \/ StUpsert

SpecState == InitState /\ [][NextState]_vars

-----------------------------------------------------------------------------
(* The object store and the metadata blob *)

IsCommit(oid) == oid \in Commits \/ oid \in DOMAIN log

ParentsOf(oid) == IF oid \in DOMAIN log THEN log[oid].parents ELSE CommitParents(oid)

TreeOf(oid) == IF oid \in DOMAIN log THEN log[oid].tree ELSE CommitTree(oid)

\* The blob `meta` is [json, object]: whether its bytes are well-formed JSON,
\* and the members of the JSON object it holds.  A JSON value is <<"null">>,
\* <<"number", digits>>, <<"string", text>> or <<"hexstring", oid>>, the string
\* that spells oid in hexadecimal; names and lists of names stand for
\* themselves.

\* LogOid::serialize: the id formatted as a string of hexadecimal digits
LogOid_serialize(oid) == <<"hexstring", oid>>

\* LogOid::deserialize: a borrowed string handed to Oid::from_str; <<>> is the
\* error.
LogOid_deserialize(v) == IF v[1] = "hexstring" THEN <<v[2]>> ELSE <<>>

\* An encoding that skips the Option field.
Encode_SkipsPrevious(e) ==
    [ json   |-> TRUE,
      object |-> [ message   |-> e.message,
                   head      |-> LogOid_serialize(e.head),
                   base      |-> LogOid_serialize(e.base),
                   base_name |-> e.base_name,
                   applied   |-> e.applied,
                   unapplied |-> e.unapplied,
                   patches   |-> [n \in DOMAIN e.patches |-> LogOid_serialize(e.patches[n])] ] ]

\* serde_json::to_writer_pretty of LogEntryV1 (derive(Serialize)): one member
\* per field of the struct; an absent previous is written as null.
Encode(e) ==
    [ json   |-> TRUE,
      object |-> [ message   |-> e.message,
                   previous  |-> IF e.previous = <<>> THEN <<"null">>
                                 ELSE LogOid_serialize(e.previous[1]),
                   head      |-> LogOid_serialize(e.head),
                   base      |-> LogOid_serialize(e.base),
                   base_name |-> e.base_name,
                   applied   |-> e.applied,
                   unapplied |-> e.unapplied,
                   patches   |-> [n \in DOMAIN e.patches |-> LogOid_serialize(e.patches[n])] ] ]

\* The fields of LogEntryV1 that are no Option
RequiredKeys == {"message", "head", "base", "base_name", "applied", "unapplied", "patches"}

\* serde_json::from_slice into LogEntryV1 (derive(Deserialize)): the bytes must
\* parse, every field but the Option must be present, every id must
\* deserialize; a missing or null previous is None.  The derive has no
\* deny_unknown_fields: members that are no field of the struct are skipped.
\* <<>> is the error.
Decode(blob) ==
    IF ~blob.json THEN <<>>
    ELSE LET doc == blob.object
             has_previous == "previous" \in DOMAIN doc /\ doc.previous # <<"null">>
         IN
         IF ~(RequiredKeys \subseteq DOMAIN doc) THEN <<>>
         ELSE IF \/ LogOid_deserialize(doc.head) = <<>>
                 \/ LogOid_deserialize(doc.base) = <<>>
                 \/ has_previous /\ LogOid_deserialize(doc.previous) = <<>>
                 \/ \E n \in DOMAIN doc.patches : LogOid_deserialize(doc.patches[n]) = <<>>
              THEN <<>>
         ELSE << [ message   |-> doc.message,
                   previous  |-> IF has_previous THEN LogOid_deserialize(doc.previous)
                                 ELSE <<>>,
                   head      |-> LogOid_deserialize(doc.head)[1],
                   base_name |-> doc.base_name,
                   base      |-> LogOid_deserialize(doc.base)[1],
                   applied   |-> doc.applied,
                   unapplied |-> doc.unapplied,
                   patches   |-> [n \in DOMAIN doc.patches |->
                                      LogOid_deserialize(doc.patches[n])[1]] ] >>

\* LogEntryV1::build_tree: the previous tree with `meta` inserted or overwritten.
build_tree(e, prev) == MapInsert(prev, "meta", Encode(e))

\* The object id of the n-th log entry commit written.
LogOidOf(n) == "L" \o ToString(n)

\* What HEAD resolves to (repo.head()?.peel_to_commit()), <<>> when it is unborn.
HeadCommit ==
    IF HEAD \in UserBranches THEN <<BranchTip(HEAD)>>
    ELSE branches[HEAD[4]]

-----------------------------------------------------------------------------
(* QueueState: reading and writing the log (log.rs) *)

\* QueueState::current_for_queue
current_for_queue(queue) ==
    IF logrefs[queue] = <<>> THEN [status |-> "git_notfound", state |-> <<>>]
    ELSE LET tip == logrefs[queue][1] IN
         IF \/ ~IsCommit(tip)
            \/ "meta" \notin DOMAIN TreeOf(tip)
            \/ Decode(TreeOf(tip)["meta"]) = <<>>
         THEN [status |-> "inconsistency_queuelog_reference", state |-> <<>>]
         ELSE [status |-> "ok",
               state |-> << [oid |-> <<tip>>, entry |-> Decode(TreeOf(tip)["meta"])[1]] >>]

\* QueueState::next
next(self, message) ==
    [ oid   |-> <<>>,
      entry |-> [ message   |-> message,
                  head      |-> self.entry.head,
                  base      |-> self.entry.base,
                  base_name |-> self.entry.base_name,
                  previous  |-> self.oid,
                  applied   |-> self.entry.applied,
                  unapplied |-> self.entry.unapplied,
                  patches   |-> self.entry.patches ] ]

\* The mutator handed to create_next: a sequence of calls on the next state.
\* "fail" is the mutator returning an error of its own.
MutOp(k, n, m, oid) == [k |-> k, n |-> n, m |-> m, oid |-> oid]

ApplyOp(e, o) ==
    CASE o.k = "upsert" -> upsert_patch(e, o.n, o.oid)
      [] o.k = "pop"    -> pop(e, o.m)
      [] o.k = "push"   -> push(e)
      [] o.k = "rename" -> rename_patch(e, o.n, o.m)
      [] OTHER          -> [status |-> "err", e |-> e]

RECURSIVE RunFunc(_, _)
RunFunc(e, func) ==
    IF func = <<>> THEN [status |-> "ok", e |-> e]
    ELSE LET r == ApplyOp(e, func[1]) IN
         IF r.status # "ok" THEN r ELSE RunFunc(r.e, SubSeq(func, 2, Len(func)))

\* The orders HashMap::values can yield the patch commits in.
ValueOrders(ps) ==
    {s \in [1..Cardinality(DOMAIN ps) -> DOMAIN ps] : \A n \in DOMAIN ps : \E i \in DOMAIN s : s[i] = n}

\* A parent list with the head the entry records in the second place.
CommitParentList_EntryHead(e, head_commit, order) ==
    <<e.previous[1], e.head>> \o [i \in DOMAIN order |-> e.patches[order[i]]]

\* The parent list QueueState::commit assembles.
CommitParentList(e, head_commit, order) ==
    <<e.previous[1], head_commit>> \o [i \in DOMAIN order |-> e.patches[order[i]]]

\* A commit that moves the reference whatever its tip is.
RefAcceptsAnyCommit(ref, parents) == TRUE

\* git_commit_create with an update_ref: the reference is created when absent,
\* and otherwise its tip must be the first parent.
RefAcceptsCommit(ref, parents) == ref = <<>> \/ (parents # <<>> /\ ref[1] = parents[1])

\* QueueState::commit: the first step that fails, or "ok".  inj is a failure of
\* the repository at that step.
CommitOutcome(st, ref, inj) ==
    LET e == st.entry IN
    IF st.oid # <<>> \/ e.previous = <<>> THEN "panic"
    ELSE IF inj = "find_prev" \/ ~IsCommit(e.previous[1]) THEN "err_find_prev"
    ELSE IF inj = "signature" THEN "err_signature"
    ELSE IF inj = "tree" THEN "err_tree"
    ELSE IF inj = "head" \/ HeadCommit = <<>> THEN "err_head"
    ELSE IF inj = "find_patch" \/ \E n \in DOMAIN e.patches : ~IsCommit(e.patches[n])
         THEN "err_find_patch"
    ELSE IF inj = "commit_write" \/ ~RefAcceptsCommit(ref, <<e.previous[1]>>)
         THEN "err_commit_write"
    ELSE "ok"

\* A create_next that commits the state the mutator left, whatever it returned.
create_next_CommitsAfterError(self, ref, message, func, inj) ==
    LET nx == next(self, message)
        r == RunFunc(nx.entry, func)
    IN IF r.status = "panic" THEN [status |-> "panic", e |-> r.e]
       ELSE [status |-> CommitOutcome([nx EXCEPT !.entry = r.e], ref, "none"), e |-> r.e]

\* QueueState::create_next: the mutator runs on the next state, and the state
\* is committed only when it returned no error.  ref is the log reference.
create_next(self, ref, message, func, inj) ==
    LET nx == next(self, message)
        r == RunFunc(nx.entry, func)
    IN IF r.status = "panic" THEN [status |-> "panic", e |-> r.e]
       ELSE IF r.status # "ok" THEN [status |-> "err_func", e |-> r.e]
       ELSE [status |-> CommitOutcome([nx EXCEPT !.entry = r.e], ref, inj), e |-> r.e]

\* A commit whose tree is built on the tree of the checked-out commit.
CommitObject_TreeOfHead(e, order) ==
    [ parents |-> CommitParentList(e, HeadCommit[1], order),
      tree    |-> build_tree(e, TreeOf(HeadCommit[1])),
      message |-> e.message ]

\* The commit object QueueState::commit writes.
CommitObject(e, order) ==
    [ parents |-> CommitParentList(e, HeadCommit[1], order),
      tree    |-> build_tree(e, TreeOf(e.previous[1])),
      message |-> e.message ]

\* The commit object QueueState::new writes.
InitialObject(e, base_commit) ==
    [ parents |-> <<base_commit>>,
      tree    |-> build_tree(e, TreeOf(base_commit)),
      message |-> e.message ]

-----------------------------------------------------------------------------
(* Queue: the facade (queue.rs) *)

\* A QueueState::new that does not look for the log reference first.
QueueState_new_NoRefCheck(queue, base, inj) ==
    IF inj = "tree" THEN "err_tree"
    ELSE IF inj = "signature" THEN "err_signature"
    ELSE IF inj = "commit_write" THEN "err_commit_write"
    ELSE "ok"

\* QueueState::new.  The reference check comes first; inj is a failure of the
\* repository at a later step.
QueueState_new(queue, base, inj) ==
    IF logrefs[queue] # <<>> THEN "already_exists_queuelog"
    ELSE IF inj = "tree" THEN "err_tree"
    ELSE IF inj = "signature" THEN "err_signature"
    ELSE IF inj = "commit_write" THEN "err_commit_write"
    ELSE "ok"

\* Queue::for_queue
for_queue(queue) ==
    IF branches[queue] = <<>> THEN [status |-> "none", queue |-> <<>>]
    ELSE LET r == current_for_queue(queue) IN
         IF r.status # "ok" THEN [status |-> r.status, queue |-> <<>>]
         ELSE [status |-> "some",
               queue |-> << [name |-> queue, branch |-> branches[queue][1],
                             state |-> r.state[1]] >>]

\* A name as the string the program sees: its components with "/" between
\* them, one element for each component and each separator.
RECURSIVE PathString(_)
PathString(name) ==
    IF Len(name) <= 1 THEN name
    ELSE <<name[1], "/">> \o PathString(SubSeq(name, 2, Len(name)))

\* str::split_once: the parts before and after the first place the pattern
\* occurs at, <<>> when it occurs nowhere.
split_once(str, pat) ==
    LET at == {i \in 1..(Len(str) - Len(pat) + 1) : SubSeq(str, i, i + Len(pat) - 1) = pat} IN
    IF at = {} THEN <<>>
    ELSE LET i == CHOOSE i \in at : \A j \in at : i <= j IN
         << [before |-> SubSeq(str, 1, i - 1),
             after  |-> SubSeq(str, i + Len(pat), Len(str))] >>

\* Ctx::current_branch: the branch HEAD is on, <<>> when HEAD is unborn.
current_branch == IF HeadCommit = <<>> THEN <<>> ELSE <<HEAD>>

\* Queue::for_queue on a name given as a string: find_branch finds nothing
\* for a name no queue has.
for_queue_str(str) ==
    IF Len(str) = 1 /\ str[1] \in Queues THEN for_queue(str[1])
    ELSE [status |-> "none", queue |-> <<>>]

\* Queue::current
Queue_current ==
    IF current_branch = <<>> THEN [status |-> "none", queue |-> <<>>]
    ELSE LET name == PathString(BranchName(current_branch[1]))
             sp == split_once(name, <<"queues", "/">>)
         IN IF sp = <<>> THEN [status |-> "none", queue |-> <<>>]
            ELSE for_queue_str(sp[1].after)

\* An initialize that moves an existing branch (force = true).
initialize_Forced(name, branch, inj) ==
    IF inj = "branch" THEN "err_branch"
    ELSE QueueState_new(name, branch, inj)

\* Queue::initialize: what it returns.  repo.branch with force = false fails
\* with Exists on a branch that is there; from QueueState::new on, the branch
\* has been created.
initialize(name, branch, inj) ==
    IF branches[name] # <<>> THEN "none"
    ELSE IF inj = "branch" THEN "err_branch"
    ELSE QueueState_new(name, branch, inj)

\* Queue::is_current
is_current(h) == HEAD = QueueBranchRef(h.name) /\ branches[h.name] # <<>>

\* Queue::can_close
can_close(h) == patches_num(h.state.entry) = 0

\* git_branch_delete on the facade's branch handle: the reference must still be
\* the one the handle was made from.
BranchDeletable(h) == branches[h.name] = <<h.branch>>

\* A close without the assertion on patches_num.
Queue_close_WithPatches(h, inj) ==
    LET same == [status |-> "", branch |-> branches[h.name], logref |-> logrefs[h.name]] IN
    IF is_current(h) THEN [same EXCEPT !.status = "panic_current"]
    ELSE IF inj = "branch_delete" \/ ~BranchDeletable(h)
         THEN [same EXCEPT !.status = "err_branch_delete"]
    ELSE IF inj = "find_ref"
         THEN [same EXCEPT !.status = "err_find_ref", !.branch = <<>>]
    ELSE IF logrefs[h.name] = <<>>
         THEN [same EXCEPT !.status = "ok", !.branch = <<>>]
    ELSE IF inj = "ref_delete"
         THEN [same EXCEPT !.status = "err_ref_delete", !.branch = <<>>]
    ELSE [status |-> "ok", branch |-> <<>>, logref |-> <<>>]

\* A close that returns the NotFound of a log reference already deleted.
Queue_close_NotFoundIsError(h, inj) ==
    LET same == [status |-> "", branch |-> branches[h.name], logref |-> logrefs[h.name]] IN
    IF is_current(h) THEN [same EXCEPT !.status = "panic_current"]
    ELSE IF patches_num(h.state.entry) # 0 THEN [same EXCEPT !.status = "panic_patches"]
    ELSE IF inj = "branch_delete" \/ ~BranchDeletable(h)
         THEN [same EXCEPT !.status = "err_branch_delete"]
    ELSE IF inj = "find_ref" \/ logrefs[h.name] = <<>>
         THEN [same EXCEPT !.status = "err_find_ref", !.branch = <<>>]
    ELSE IF inj = "ref_delete"
         THEN [same EXCEPT !.status = "err_ref_delete", !.branch = <<>>]
    ELSE [status |-> "ok", branch |-> <<>>, logref |-> <<>>]

\* A close that deletes the branch and leaves the log reference.
Queue_close_KeepsLogRef(h, inj) ==
    LET same == [status |-> "", branch |-> branches[h.name], logref |-> logrefs[h.name]] IN
    IF is_current(h) THEN [same EXCEPT !.status = "panic_current"]
    ELSE IF patches_num(h.state.entry) # 0 THEN [same EXCEPT !.status = "panic_patches"]
    ELSE IF inj = "branch_delete" \/ ~BranchDeletable(h)
         THEN [same EXCEPT !.status = "err_branch_delete"]
    ELSE [same EXCEPT !.status = "ok", !.branch = <<>>]

\* A close that deletes the log reference first and the branch after it.
Queue_close_LogRefFirst(h, inj) ==
    LET same == [status |-> "", branch |-> branches[h.name], logref |-> logrefs[h.name]] IN
    IF is_current(h) THEN [same EXCEPT !.status = "panic_current"]
    ELSE IF patches_num(h.state.entry) # 0 THEN [same EXCEPT !.status = "panic_patches"]
    ELSE IF inj = "find_ref" THEN [same EXCEPT !.status = "err_find_ref"]
    ELSE IF inj = "ref_delete" /\ logrefs[h.name] # <<>>
         THEN [same EXCEPT !.status = "err_ref_delete"]
    ELSE IF inj = "branch_delete" \/ ~BranchDeletable(h)
         THEN [same EXCEPT !.status = "err_branch_delete", !.logref = <<>>]
    ELSE [status |-> "ok", branch |-> <<>>, logref |-> <<>>]

\* Queue::close: the outcome and the two references as it leaves them.
Queue_close(h, inj) ==
    LET same == [status |-> "", branch |-> branches[h.name], logref |-> logrefs[h.name]] IN
    IF is_current(h) THEN [same EXCEPT !.status = "panic_current"]
    ELSE IF patches_num(h.state.entry) # 0 THEN [same EXCEPT !.status = "panic_patches"]
    ELSE IF inj = "branch_delete" \/ ~BranchDeletable(h)
         THEN [same EXCEPT !.status = "err_branch_delete"]
    ELSE IF inj = "find_ref"
         THEN [same EXCEPT !.status = "err_find_ref", !.branch = <<>>]
    ELSE IF logrefs[h.name] = <<>>
         THEN [same EXCEPT !.status = "ok", !.branch = <<>>]
    ELSE IF inj = "ref_delete"
         THEN [same EXCEPT !.status = "err_ref_delete", !.branch = <<>>]
    ELSE [status |-> "ok", branch |-> <<>>, logref |-> <<>>]

\* close_one (commands/close.rs): what the command does with the queue
close_one(h, force) ==
    IF is_current(h) THEN "usage"
    ELSE IF force THEN "close"
    ELSE IF can_close(h) THEN "close"
    ELSE "usage"

\* Queue::list: the item yielded for the branch queues/<queue>
list_item(queue) ==
    LET r == for_queue(queue) IN
    IF r.status = "none" THEN "inconsistency_queuelog"
    ELSE IF r.status = "some" THEN "ok"
    ELSE r.status

-----------------------------------------------------------------------------
(* The operations as steps of a caller that holds at most one facade, on a   *)
(* repository the user also runs git on by hand.                             *)

InitFailures == {"none", "branch", "tree", "signature", "commit_write"}

CommitFailures == {"none", "find_prev", "signature", "tree", "head", "find_patch", "commit_write"}

CloseFailures == {"none", "branch_delete", "find_ref", "ref_delete"}

SwitchFailures == {"none", "checkout", "set_head"}

\* Mutators handed to create_next.
NewPatch == <<MutOp("upsert", "a", "", "P1")>>

Failing == <<MutOp("fail", "", "", "")>>

PopOne == <<MutOp("pop", "", "ok", "")>>

\* a new patch, popped and pushed again, then amended
AmendPushed ==
    <<MutOp("upsert", "a", "", "P1"), MutOp("pop", "", "ok", ""),
      MutOp("push", "", "", ""), MutOp("upsert", "a", "", "P2")>>

Funcs ==
    {Failing, PopOne, <<MutOp("pop", "", "err", "")>>, NewPatch,
     <<MutOp("upsert", "b", "", "P3")>>, <<MutOp("upsert", "a", "", NotACommit)>>,
     AmendPushed}

\* Every mutator with a repository that works, and every failure of the
\* repository with a mutator that adds a patch.
LogInputs ==
    {<<func, "none">> : func \in Funcs} \cup {<<NewPatch, inj>> : inj \in CommitFailures}

Init ==
    /\ qs = NewEntry("C0", <<"main">>)
    /\ last = NoOp
    /\ RepoInit

ForQueue(q) ==
    LET r == for_queue(q) IN
    /\ held' = r.queue
    /\ last' = Op("for_queue", q, r.status)
    /\ UNCHANGED <<qs, switching, log, nextId, branches, logrefs, HEAD, worktree>>

\* Queue::initialize
Initialize(q, b, inj) ==
    LET base == BranchTip(b)
        entry == NewEntry(base, BranchName(b))
        oid == LogOidOf(nextId + 1)
        out == initialize(q, b, inj)
        branched == out \notin {"none", "err_branch"}
    IN
    /\ out = "ok" => nextId < MaxLog
    /\ branches' = IF branched THEN [branches EXCEPT ![q] = <<base>>] ELSE branches
    /\ IF out = "ok"
       THEN /\ log' = MapInsert(log, oid, InitialObject(entry, base))
            /\ nextId' = nextId + 1
            /\ logrefs' = [logrefs EXCEPT ![q] = <<oid>>]
            /\ held' = << [name |-> q, branch |-> base,
                           state |-> [oid |-> <<oid>>, entry |-> entry]] >>
       ELSE UNCHANGED <<log, nextId, logrefs, held>>
    /\ last' = Op("initialize", q, out)
    /\ UNCHANGED <<qs, switching, HEAD, worktree>>

\* QueueState::create_next on the state of the held facade.  The caller is
\* handed the new state and either goes on with it or keeps the one it had.
CreateNext(func, inj, adopt) ==
    /\ held # <<>>
    /\ LET h == held[1]
           r == create_next(h.state, logrefs[h.name], "update", func, inj)
           oid == LogOidOf(nextId + 1)
       IN
       /\ r.status = "ok" => nextId < MaxLog
       /\ IF r.status = "ok"
          THEN \E order \in ValueOrders(r.e.patches) :
                  /\ log' = MapInsert(log, oid, CommitObject(r.e, order))
                  /\ nextId' = nextId + 1
                  /\ logrefs' = [logrefs EXCEPT ![h.name] = <<oid>>]
                  /\ held' = IF adopt
                             THEN << [h EXCEPT !.state = [oid |-> <<oid>>, entry |-> r.e]] >>
                             ELSE held
          ELSE UNCHANGED <<log, nextId, logrefs, held>>
       /\ last' = Op("create_next", h.name, r.status)
    /\ UNCHANGED <<qs, switching, branches, HEAD, worktree>>

\* Queue::close on the held facade (the facade is consumed)
Close(inj) ==
    /\ held # <<>>
    /\ LET h == held[1]
           r == Queue_close(h, inj)
       IN
       /\ branches' = [branches EXCEPT ![h.name] = r.branch]
       /\ logrefs' = [logrefs EXCEPT ![h.name] = r.logref]
       /\ last' = Op("close", h.name, r.status)
    /\ held' = <<>>
    /\ UNCHANGED <<qs, switching, log, nextId, HEAD, worktree>>

\* The `close` command (commands/close.rs: close, close_one) for one queue
CliClose(q, force, inj) ==
    LET f == for_queue(q) IN
    /\ IF f.status = "none"
       THEN /\ last' = Op("cli_close", q, "dataerr")
            /\ UNCHANGED <<branches, logrefs>>
       ELSE IF f.status # "some"
       THEN /\ last' = Op("cli_close", q, f.status)
            /\ UNCHANGED <<branches, logrefs>>
       ELSE IF close_one(f.queue[1], force) = "usage"
       THEN /\ last' = Op("cli_close", q, "usage")
            /\ UNCHANGED <<branches, logrefs>>
       ELSE LET r == Queue_close(f.queue[1], inj) IN
            /\ branches' = [branches EXCEPT ![q] = r.branch]
            /\ logrefs' = [logrefs EXCEPT ![q] = r.logref]
            /\ last' = Op("cli_close", q, r.status)
    /\ UNCHANGED <<qs, switching, log, nextId, HEAD, worktree, held>>

\* Queue::switch_to (Ctx::checkout_branch): the tree of the facade's branch is
\* checked out, then HEAD is set to the branch by name.  set_head attaches HEAD
\* to the name whether or not the branch is still there.
SwitchTo(merge, inj) ==
    /\ held # <<>>
    /\ LET h == held[1]
           out == IF inj = "checkout" THEN "err_checkout"
                  ELSE IF inj = "set_head" THEN "err_set_head"
                  ELSE "ok"
       IN
       /\ worktree' = IF out = "err_checkout" THEN worktree ELSE h.branch
       /\ HEAD' = IF out = "ok" THEN QueueBranchRef(h.name) ELSE HEAD
       /\ last' = [Op("switch_to", h.name, out) EXCEPT
                       !.checkout = <<[tree |-> h.branch, conflict_style_merge |-> merge]>>]
    /\ UNCHANGED <<qs, switching, log, nextId, branches, logrefs, held>>

\* Queue::list, for the branch of queue q
List(q) ==
    /\ branches[q] # <<>>
    /\ last' = Op("list", q, list_item(q))
    /\ UNCHANGED <<qs, switching, log, nextId, branches, logrefs, HEAD, worktree, held>>

\* The `switch` command (commands/switch.rs) of another process, up to its
\* Queue::initialize: for_queue, and with --create on a queue that is not
\* there the base branch.  A queue that is there is switched to.
SwitchBegin(q, create, b) ==
    LET f == for_queue(q) IN
    /\ switching = <<>>
    /\ IF f.status = "some"
       THEN /\ HEAD' = QueueBranchRef(q)
            /\ worktree' = f.queue[1].branch
            /\ last' = Op("cli_switch", q, "ok")
            /\ UNCHANGED switching
       ELSE IF f.status = "none" /\ create
       THEN /\ switching' = << [queue |-> q, base |-> b] >>
            /\ last' = Op("cli_switch", q, "for_queue_none")
            /\ UNCHANGED <<HEAD, worktree>>
       ELSE /\ last' = Op("cli_switch", q, IF f.status = "none" THEN "dataerr" ELSE f.status)
            /\ UNCHANGED <<HEAD, worktree, switching>>
    /\ UNCHANGED <<qs, log, nextId, branches, logrefs, held>>

\* The rest of `switch --create`: Queue::initialize, unwrapped, and switch_to
\* on the queue it returned.
SwitchFinish ==
    /\ switching # <<>>
    /\ LET q == switching[1].queue
           b == switching[1].base
           base == BranchTip(b)
           oid == LogOidOf(nextId + 1)
           out == initialize(q, b, "none")
       IN
       /\ out = "ok" => nextId < MaxLog
       /\ branches' = IF out \notin {"none", "err_branch"}
                      THEN [branches EXCEPT ![q] = <<base>>] ELSE branches
       /\ IF out = "ok"
          THEN /\ log' = MapInsert(log, oid, InitialObject(NewEntry(base, BranchName(b)), base))
               /\ nextId' = nextId + 1
               /\ logrefs' = [logrefs EXCEPT ![q] = <<oid>>]
               /\ HEAD' = QueueBranchRef(q)
               /\ worktree' = base
          ELSE UNCHANGED <<log, nextId, logrefs, HEAD, worktree>>
       /\ last' = Op("cli_switch", q, IF out = "none" THEN "panic_unwrap_none" ELSE out)
    /\ switching' = <<>>
    /\ UNCHANGED <<qs, held>>

\* Queue::current: the caller takes the facade of the queue it is on.
Current ==
    LET r == Queue_current IN
    /\ held' = r.queue
    /\ last' = Op("current", "", r.status)
    /\ UNCHANGED <<qs, switching, log, nextId, branches, logrefs, HEAD, worktree>>

\* The user checks out a base branch with git.
GitCheckout(target) ==
    /\ HEAD # target
    /\ HEAD' = target
    /\ worktree' = BranchTip(target)
    /\ last' = Op("git_checkout", "", "ok")
    /\ UNCHANGED <<qs, switching, log, nextId, branches, logrefs, held>>

\* The user deletes a queue's log reference with git.
GitDeleteLogRef(q) ==
    /\ logrefs[q] # <<>>
    /\ logrefs' = [logrefs EXCEPT ![q] = <<>>]
    /\ last' = Op("git_delete_logref", q, "ok")
    /\ UNCHANGED <<qs, switching, log, nextId, branches, HEAD, worktree, held>>

\* Spec: the life of a queue (initialize, switch, add a patch, close, list).
Next ==
    \/ \E q \in Queues : ForQueue(q)
    \/ \E q \in Queues, b \in BaseBranches, inj \in InitFailures : Initialize(q, b, inj)
    \/ \E func \in {NewPatch, Failing}, adopt \in BOOLEAN : CreateNext(func, "none", adopt)
    \/ \E inj \in CloseFailures : Close(inj)
    \/ \E q \in Queues, force \in BOOLEAN, inj \in CloseFailures : CliClose(q, force, inj)
    \/ \E merge \in BOOLEAN, inj \in SwitchFailures : SwitchTo(merge, inj)
    \/ \E q \in Queues : List(q)
    \/ GitCheckout(<<"refs", "heads", "dev">>)
    \/ \E q \in Queues : GitDeleteLogRef(q)

Spec == Init /\ [][Next]_vars

\* SpecLog: the queue log under initialize and create_next alone.
NextLog ==
    \/ \E q \in Queues, b \in BaseBranches, inj \in InitFailures : Initialize(q, b, inj)
    \/ \E in \in LogInputs, adopt \in BOOLEAN : CreateNext(in[1], in[2], adopt)
    \/ SwitchTo(FALSE, "none")
    \/ GitCheckout(<<"refs", "heads", "dev">>)

SpecLog == Init /\ [][NextLog]_vars

\* SpecCodec: a queue log that holds entries this program did not write (a
\* later version of the tool, an edit by hand), read back by for_queue.

\* What the foreign entry's meta blob is, next to the blob of the tip: with
\* `version` 1 or 2, as this program writes it (no `version`), with a member
\* LogEntryV1 has no field for, with bytes that are no JSON, with a head that
\* is no hexadecimal id.
MetaEdits == {"version_1", "version_2", "no_version", "unknown_field", "not_json", "bad_id"}

EditMeta(blob, kind) ==
    LET v1 == [blob EXCEPT !.object = MapInsert(blob.object, "version", <<"number", "1">>)] IN
    CASE kind = "version_1"     -> v1
      [] kind = "version_2"     ->
             [blob EXCEPT !.object = MapInsert(blob.object, "version", <<"number", "2">>)]
      [] kind = "no_version"    -> [blob EXCEPT !.object = MapRemove(blob.object, "version")]
      [] kind = "unknown_field" ->
             [v1 EXCEPT !.object = MapInsert(v1.object, "future", <<"string", "x">>)]
      [] kind = "not_json"      -> [blob EXCEPT !.json = FALSE]
      [] kind = "bad_id"        ->
             [v1 EXCEPT !.object = MapInsert(v1.object, "head", <<"string", "not-hex">>)]

\* A log entry put on refs/queuelogs/<q> from outside: the tip's tree with the
\* meta blob edited.
GitWriteLogEntry(q, kind) ==
    /\ logrefs[q] # <<>>
    /\ nextId < MaxLog
    /\ LET tip == logrefs[q][1]
           oid == LogOidOf(nextId + 1)
           tree == MapInsert(TreeOf(tip), "meta", EditMeta(TreeOf(tip)["meta"], kind))
       IN
       /\ log' = MapInsert(log, oid, [parents |-> <<tip>>, tree |-> tree, message |-> "foreign"])
       /\ nextId' = nextId + 1
       /\ logrefs' = [logrefs EXCEPT ![q] = <<oid>>]
    /\ last' = Op("git_write_log_entry", q, kind)
    /\ UNCHANGED <<qs, switching, branches, HEAD, worktree, held>>

NextCodec ==
    \/ \E q \in Queues, b \in BaseBranches : Initialize(q, b, "none")
    \/ \E func \in {NewPatch, PopOne}, adopt \in BOOLEAN : CreateNext(func, "none", adopt)
    \/ \E q \in Queues, kind \in MetaEdits : GitWriteLogEntry(q, kind)
    \/ \E q \in Queues : ForQueue(q)

SpecCodec == Init /\ [][NextCodec]_vars

\* SpecCurrent: the user moves between the queue branch and branches of their
\* own, and the program asks which queue it is on.
NextCurrent ==
    \/ \E q \in Queues, b \in BaseBranches, inj \in InitFailures : Initialize(q, b, inj)
    \/ \E adopt \in BOOLEAN : CreateNext(NewPatch, "none", adopt)
    \/ \E inj \in CloseFailures : Close(inj)
    \/ SwitchTo(FALSE, "none")
    \/ \E target \in UserBranches : GitCheckout(target)
    \/ \E q \in Queues : GitDeleteLogRef(q)
    \/ Current

SpecCurrent == Init /\ [][NextCurrent]_vars

\* SpecSwitch: the `switch` command of one process, step by step, while the
\* caller initializes, fills and closes the same queue.
NextSwitch ==
    \/ \E q \in Queues, create \in BOOLEAN, b \in BaseBranches : SwitchBegin(q, create, b)
    \/ SwitchFinish
    \/ \E q \in Queues, b \in BaseBranches, inj \in InitFailures : Initialize(q, b, inj)
    \/ \E adopt \in BOOLEAN : CreateNext(NewPatch, "none", adopt)
    \/ \E q \in Queues, force \in BOOLEAN, inj \in CloseFailures : CliClose(q, force, inj)
    \/ GitCheckout(<<"refs", "heads", "dev">>)

SpecSwitch == Init /\ [][NextSwitch]_vars

-----------------------------------------------------------------------------
(* C1: applied and unapplied share no patch name, and the key set of        *)
(* patches is the set of names in applied and unapplied, in every state     *)
(* reachable by push, pop, rename_patch (old tracked, any new) and          *)
(* upsert_patch.                                                            *)
C1_PartitionInvariant ==
    /\ Range(qs.applied) \cap Range(qs.unapplied) = {}
    /\ DOMAIN qs.patches = Range(qs.applied) \cup Range(qs.unapplied)

(* C2: head is base while applied is empty, and patches[last(applied)]      *)
(* otherwise, in every state reachable by push, pop, rename_patch and       *)
(* upsert_patch.                                                            *)
C2_HeadInvariant ==
    IF qs.applied = <<>> THEN qs.head = qs.base
    ELSE /\ Last(qs.applied) \in DOMAIN qs.patches
         /\ qs.head = qs.patches[Last(qs.applied)]

-----------------------------------------------------------------------------
(* Reading the log back *)

\* The metadata record of a log entry commit
MetaOf(oid) == Decode(TreeOf(oid)["meta"])[1]

\* Every object id the metadata record of a log entry mentions
MetaIds(oid) ==
    LET m == MetaOf(oid) IN
    {m.head, m.base} \cup Range(m.previous) \cup {m.patches[n] : n \in DOMAIN m.patches}

RECURSIVE Closure(_, _)
Closure(S, n) ==
    LET T == S \cup UNION {Range(ParentsOf(o)) : o \in S} IN
    IF n = 0 \/ T = S THEN S ELSE Closure(T, n - 1)

\* The commits reachable from a commit by following parent edges
Ancestors(oid) == Closure(Range(ParentsOf(oid)), Cardinality(Commits) + nextId)

\* The entries met by following `previous` from a log entry, the entry first.
\* The walk stops at an entry with no previous; "dangling" marks a previous that
\* is no log entry, "cycle" a walk longer than the log.
RECURSIVE ChainFrom(_, _)
ChainFrom(oid, fuel) ==
    IF oid \notin DOMAIN log THEN <<"dangling">>
    ELSE IF MetaOf(oid).previous = <<>> THEN <<oid>>
    ELSE IF fuel = 0 THEN <<"cycle">>
    ELSE <<oid>> \o ChainFrom(MetaOf(oid).previous[1], fuel - 1)

Chain(q) == IF logrefs[q] = <<>> THEN <<>> ELSE ChainFrom(logrefs[q][1], nextId)

\* A log entry as QueueState::new writes it: its only parent is no log entry.
IsInitialEntry(oid) ==
    /\ oid \in DOMAIN log
    /\ Len(log[oid].parents) = 1
    /\ log[oid].parents[1] \in Commits

(* C3: every object id in the metadata record of a log entry (head, base,    *)
(* previous, the values of patches) is reachable from the entry's commit by  *)
(* following parent edges.                                                   *)
C3_MetadataReachable ==
    \A oid \in DOMAIN log : MetaIds(oid) \subseteq Ancestors(oid)

(* C4: following `previous` from the tip of the log reference visits a       *)
(* linear chain that ends at the initial entry, the only one with no         *)
(* previous; a successful create_next puts one entry in front of the chain,  *)
(* and its previous is the former tip.                                       *)
C4_ChainOk(q) ==
    logrefs[q] # <<>> =>
        LET c == Chain(q) IN
        /\ IsInitialEntry(Last(c))
        /\ \A i \in 1..(Len(c) - 1) : ~IsInitialEntry(c[i]) /\ log[c[i]].parents[1] = c[i + 1]
        /\ \A i, j \in DOMAIN c : c[i] = c[j] => i = j

C4_Step ==
    \A q \in Queues :
        (last'.op = "create_next" /\ last'.outcome = "ok" /\ last'.queue = q) =>
            /\ logrefs[q] # <<>>
            /\ logrefs'[q] # <<>>
            /\ LET tip == logrefs'[q][1] IN
               \* one new entry, on top of the chain as it was
               /\ tip \notin DOMAIN log
               /\ DOMAIN log' = DOMAIN log \cup {tip}
               /\ \A oid \in DOMAIN log : log'[oid] = log[oid]
               /\ Decode(log'[tip].tree["meta"])[1].previous = logrefs[q]
               /\ log'[tip].parents[1] = logrefs[q][1]

C4_LinearChain == [](\A q \in Queues : C4_ChainOk(q)) /\ [][C4_Step]_vars

C4_Witness ==
    /\ last.op = "create_next"
    /\ last.outcome = "ok"
    /\ Len(Chain("work")) = 3

(* C5: when the mutator returns an error, or a step of committing the new    *)
(* entry fails, create_next returns an error and the log reference points    *)
(* where it did before the call.                                             *)
C5_ReturnsError ==
    held # <<>> =>
        \A in \in LogInputs :
            (\/ in[2] # "none"
             \/ RunFunc(next(held[1].state, "update").entry, in[1]).status = "err")
            => create_next(held[1].state, logrefs[held[1].name], "update", in[1], in[2]).status
                   \notin {"ok", "panic"}

C5_Step == (last'.op = "create_next" /\ last'.outcome # "ok") => logrefs' = logrefs

C5_FailureLeavesLogRef == []C5_ReturnsError /\ [][C5_Step]_vars

C5_Witness ==
    /\ last.op = "create_next"
    /\ last.outcome \in {"err_func", "err_commit_write"}
    /\ logrefs["work"] # <<>>

(* C6: with neither reference of Q present, initialize(Q, base_branch)       *)
(* creates the queue branch at tip(base_branch) and the log reference at an  *)
(* entry with the one parent tip(base_branch) and a metadata blob with       *)
(* version = 1, no previous, head = base = tip(base_branch), base_name the   *)
(* full reference name of base_branch, and no patches.                       *)
C6_Step ==
    \A q \in Queues, b \in BaseBranches :
        (Initialize(q, b, "none") /\ branches[q] = <<>> /\ logrefs[q] = <<>>) =>
            /\ last'.outcome = "ok"
            /\ branches'[q] = <<BranchTip(b)>>
            /\ logrefs'[q] # <<>>
            /\ LET entry == log'[logrefs'[q][1]]
                   blob == entry.tree["meta"].object
                   meta == Decode(entry.tree["meta"])[1]
               IN /\ entry.parents = <<BranchTip(b)>>
                  /\ "version" \in DOMAIN blob
                  /\ blob.version = <<"number", "1">>
                  /\ meta.previous = <<>>
                  /\ meta.head = BranchTip(b)
                  /\ meta.base = BranchTip(b)
                  /\ meta.base_name = b
                  /\ meta.applied = <<>>
                  /\ meta.unapplied = <<>>
                  /\ DOMAIN meta.patches = {}

C6_InitialEntry == [][C6_Step]_vars

(* C7: initialize on a queue whose branch exists returns none and leaves     *)
(* the queue branch and the log reference where they were, whatever the      *)
(* base branch.                                                              *)
C7_ReturnsNone ==
    \A q \in Queues, b \in BaseBranches, inj \in InitFailures :
        branches[q] # <<>> => initialize(q, b, inj) = "none"

C7_Step ==
    (last'.op = "initialize" /\ branches[last'.queue] # <<>>) =>
        /\ last'.outcome = "none"
        /\ branches' = branches
        /\ logrefs' = logrefs

C7_InitializeExisting == []C7_ReturnsNone /\ [][C7_Step]_vars

C7_Witness ==
    /\ last.op = "initialize"
    /\ last.outcome = "none"
    /\ branches["work"] # <<>>

(* C8: closing a queue that is checked out or has a patch is rejected and    *)
(* removes neither reference; the close command answers a checked-out queue  *)
(* with a usage error, and with --force a queue with patches is refused.     *)
C8_Step ==
    /\ (/\ last'.op = "close"
        /\ held # <<>>
        /\ is_current(held[1]) \/ patches_num(held[1].state.entry) > 0)
           => /\ last'.outcome \in {"panic_current", "panic_patches"}
              /\ branches' = branches
              /\ logrefs' = logrefs
    /\ \A q \in Queues :
           (/\ last'.op = "cli_close"
            /\ last'.queue = q
            /\ for_queue(q).status = "some")
               => LET h == for_queue(q).queue[1] IN
                  /\ is_current(h) => last'.outcome = "usage"
                  /\ (is_current(h) \/ patches_num(h.state.entry) > 0)
                         => /\ last'.outcome \in {"usage", "panic_patches"}
                            /\ branches' = branches
                            /\ logrefs' = logrefs

C9_Closed ==
    (last.op = "close" /\ last.outcome = "ok") =>
        /\ branches[last.queue] = <<>>
        /\ logrefs[last.queue] = <<>>
        /\ for_queue(last.queue).status = "none"

C9_Step ==
    \A inj \in CloseFailures :
        (/\ held # <<>>
         /\ Close(inj)
         /\ ~is_current(held[1])
         /\ patches_num(held[1].state.entry) = 0
         /\ BranchDeletable(held[1])
         /\ inj # "branch_delete")
            => LET q == held[1].name IN
               /\ inj = "none" => last'.outcome = "ok"
               /\ (logrefs[q] = <<>> /\ inj # "find_ref") => last'.outcome = "ok"
               /\ inj = "find_ref" => last'.outcome = "err_find_ref"
               /\ (inj = "ref_delete" /\ logrefs[q] # <<>>) => last'.outcome = "err_ref_delete"

C9_CloseEmpty == []C9_Closed /\ [][C9_Step]_vars

C9_Witness ==
    /\ last.op = "close"
    /\ last.outcome = "ok"
    /\ nextId > 0
    /\ branches["work"] = <<>>
    /\ logrefs["work"] = <<>>

(* C10: with the queue branch present and the log reference absent, list     *)
(* yields Inconsistency("queuelog") for the queue and for_queue returns an   *)
(* Inconsistency error.                                                      *)
C10_Inconsistency ==
    \A q \in Queues :
        (branches[q] # <<>> /\ logrefs[q] = <<>> /\ last.queue = q) =>
            /\ last.op = "list" => last.outcome = "inconsistency_queuelog"
            /\ last.op = "for_queue" =>
                   last.outcome \in {"inconsistency_queuelog",
                                     "inconsistency_queuelog_reference"}

(* C11: after every facade operation (initialize, close, create_next,       *)
(* switch_to) that returns successfully, whatever failed before it, the log  *)
(* reference of a queue exists if and only if its queue branch exists.       *)
C11_RefsPaired ==
    (/\ last.op \in {"initialize", "close", "create_next", "switch_to"}
     /\ last.outcome \in {"ok", "none"})
        => \A q \in Queues : (logrefs[q] # <<>>) <=> (branches[q] # <<>>)

(* C12: switch_to(merge) checks out the tree of the queue branch, with      *)
(* conflict style merge iff merge, and only then sets HEAD to the queue      *)
(* branch: after a successful switch_to, is_current() is true, and when the  *)
(* checkout fails HEAD points where it did.                                  *)
C12_Step ==
    \A merge \in BOOLEAN, inj \in SwitchFailures :
        (held # <<>> /\ SwitchTo(merge, inj)) =>
            LET h == held[1] IN
            /\ last'.checkout = <<[tree |-> h.branch, conflict_style_merge |-> merge]>>
            /\ inj = "none" =>
                   /\ last'.outcome = "ok"
                   /\ worktree' = h.branch
                   /\ HEAD' = QueueBranchRef(h.name)
                   /\ branches'[h.name] # <<>>      \* with the line above: is_current()
            /\ inj = "checkout" =>
                   /\ last'.outcome = "err_checkout"
                   /\ HEAD' = HEAD
                   /\ worktree' = worktree
            /\ inj = "set_head" =>
                   /\ last'.outcome = "err_set_head"
                   /\ HEAD' = HEAD
                   /\ worktree' = h.branch

C12_SwitchOrder == [][C12_Step]_vars

(* C13: decoding the metadata blob that encoding a queue state produced     *)
(* yields that state, field by field; so current_for_queue right after       *)
(* QueueState::new or create_next returns the state just committed.          *)
C13_RoundTrip ==
    /\ held # <<>> => Decode(Encode(held[1].state.entry)) = <<held[1].state.entry>>
    /\ \A q \in Queues :
           (/\ last.op \in {"initialize", "create_next"}
            /\ last.outcome = "ok"
            /\ last.queue = q
            /\ held # <<>>
            /\ held[1].state.oid = logrefs[q])
               => /\ current_for_queue(q).status = "ok"
                  /\ current_for_queue(q).state = <<held[1].state>>

C13_Witness ==
    /\ last.op = "create_next"
    /\ last.outcome = "ok"
    /\ held # <<>>
    /\ held[1].state.oid = logrefs["work"]
    /\ held[1].state.entry.previous # <<>>
    /\ held[1].state.entry.unapplied # <<>>
    /\ DOMAIN held[1].state.entry.patches # {}

(* C14: decoding a metadata blob fails, and current_for_queue reports an    *)
(* inconsistency, whenever the record has a field version 1 does not define, *)
(* a version other than 1 or no version, is no well-formed JSON, or holds an *)
(* id that is no hexadecimal object id.                                      *)
C14_Rejected ==
    \A q \in Queues :
        (/\ last.op = "git_write_log_entry"
         /\ last.queue = q
         /\ last.outcome \in {"unknown_field", "version_2", "no_version", "not_json", "bad_id"})
            => /\ Decode(TreeOf(logrefs[q][1])["meta"]) = <<>>
               /\ current_for_queue(q).status = "inconsistency_queuelog_reference"

(* C15: after a successful create_next the tree of the new log entry        *)
(* differs from the tree of the previous log entry in the path `meta` and in *)
(* no other: every other path is there unchanged and none is added.          *)
C15_Step ==
    \A q \in Queues :
        (last'.op = "create_next" /\ last'.outcome = "ok" /\ last'.queue = q) =>
            LET old == log[logrefs[q][1]].tree
                new == log'[logrefs'[q][1]].tree
            IN /\ DOMAIN new = DOMAIN old
               /\ \A path \in DOMAIN old \ {"meta"} : new[path] = old[path]
               /\ new["meta"] # old["meta"]

C15_OnlyMetaChanges == [][C15_Step]_vars

C15_Witness ==
    /\ last.op = "create_next"
    /\ last.outcome = "ok"
    /\ DOMAIN TreeOf(logrefs["work"][1]) = {"README", "meta"}
    /\ log[logrefs["work"][1]].parents[1] \in DOMAIN log

\* rest holds one commit for every entry of patches, in some order.
IsPatchParents(rest, patches) ==
    /\ Len(rest) = Cardinality(DOMAIN patches)
    /\ \E f \in [DOMAIN patches -> DOMAIN rest] :
           /\ \A n, m \in DOMAIN patches : f[n] = f[m] => n = m
           /\ \A n \in DOMAIN patches : rest[f[n]] = patches[n]

(* C16: the parents of a log entry written by create_next are, in this      *)
(* order: the previous log entry, the commit the repository HEAD resolves to *)
(* when the entry is committed (whatever the branch), and the commit of      *)
(* every entry of patches.                                                   *)
C16_Step ==
    \A q \in Queues :
        (last'.op = "create_next" /\ last'.outcome = "ok" /\ last'.queue = q) =>
            LET entry == log'[logrefs'[q][1]]
                meta == Decode(entry.tree["meta"])[1]
            IN /\ Len(entry.parents) >= 2
               /\ entry.parents[1] = logrefs[q][1]
               /\ HeadCommit # <<>>
               /\ entry.parents[2] = HeadCommit[1]
               /\ IsPatchParents(SubSeq(entry.parents, 3, Len(entry.parents)), meta.patches)

C17_ParentsAsDocumented ==
    \A oid \in DOMAIN log :
        LET meta == MetaOf(oid)
            parents == log[oid].parents
            k == Len(meta.previous)
        IN /\ Len(parents) >= k + 1
           /\ meta.previous # <<>> => parents[1] = meta.previous[1]
           /\ parents[k + 1] = meta.head
           /\ IsPatchParents(SubSeq(parents, k + 2, Len(parents)), meta.patches)

(* C18: pop on a state with a non-empty applied takes the last name off    *)
(* applied and puts it at the end of unapplied, leaves patches as it is, and *)
(* sets head to patches[last(applied)] when applied is still non-empty, to   *)
(* get_parent(oid of the popped patch) otherwise; with an empty applied pop  *)
(* changes nothing and does not call get_parent.                             *)
C18_Pop ==
    IF qs.applied = <<>>
    THEN \A gp \in {"ok", "err"} : pop(qs, gp) = [status |-> "ok", e |-> qs]
    ELSE LET r == pop(qs, "ok") IN
         /\ r.status = "ok"
         /\ r.e.applied = Front(qs.applied)
         /\ r.e.unapplied = Append(qs.unapplied, Last(qs.applied))
         /\ r.e.patches = qs.patches
         /\ r.e.head = IF r.e.applied # <<>> THEN qs.patches[Last(r.e.applied)]
                       ELSE get_parent(qs.patches[Last(qs.applied)], "ok")[1]
         /\ r.e = [qs EXCEPT !.applied = r.e.applied, !.unapplied = r.e.unapplied,
                             !.head = r.e.head]

(* C19: push on a state with a non-empty unapplied takes the last name off  *)
(* unapplied, puts it at the end of applied and sets head to its commit,     *)
(* leaving patches, base and the other names as they are; with an empty      *)
(* unapplied push changes nothing.                                           *)
C19_Push ==
    LET r == push(qs) IN
    IF qs.unapplied = <<>> THEN r = [status |-> "ok", e |-> qs]
    ELSE /\ r.status = "ok"
         /\ r.e.unapplied = Front(qs.unapplied)
         /\ r.e.applied = Append(qs.applied, Last(qs.unapplied))
         /\ r.e.head = qs.patches[Last(qs.unapplied)]
         /\ r.e = [qs EXCEPT !.applied = r.e.applied, !.unapplied = r.e.unapplied,
                             !.head = r.e.head]

(* C20: rename_patch(old, new) with has_patch(old) puts new where old was   *)
(* in the list that held it and maps new to the id old had; the length and   *)
(* order of both lists, head, base and every other entry of patches are      *)
(* unchanged.  With old not tracked the call panics and the state is as it   *)
(* was.                                                                      *)
C20_RenameOf(old, new) ==
    LET r == rename_patch(qs, old, new) IN
    IF ~has_patch(qs, old) THEN r.status = "panic" /\ r.e = qs
    ELSE /\ r.status = "ok"
         /\ new \in DOMAIN r.e.patches
         /\ r.e.patches[new] = qs.patches[old]
         /\ old # new => old \notin DOMAIN r.e.patches
         /\ DOMAIN r.e.patches \ {new} = DOMAIN qs.patches \ {old, new}
         /\ \A n \in DOMAIN qs.patches \ {old, new} : r.e.patches[n] = qs.patches[n]
         /\ \/ /\ \E i \in DOMAIN qs.applied :
                      /\ qs.applied[i] = old
                      /\ r.e.applied = [qs.applied EXCEPT ![i] = new]
               /\ r.e.unapplied = qs.unapplied
            \/ /\ \E i \in DOMAIN qs.unapplied :
                      /\ qs.unapplied[i] = old
                      /\ r.e.unapplied = [qs.unapplied EXCEPT ![i] = new]
               /\ r.e.applied = qs.applied
         /\ r.e = [qs EXCEPT !.applied = r.e.applied, !.unapplied = r.e.unapplied,
                             !.patches = r.e.patches]

C21_UpsertOf(name, oid) ==
    LET r == upsert_patch(qs, name, oid)
        tracked == name \in Range(qs.applied) \cup Range(qs.unapplied)
    IN /\ r.status = "ok"
       /\ name \in DOMAIN r.e.patches
       /\ r.e.patches[name] = oid
       /\ \A n \in DOMAIN qs.patches \ {name} : r.e.patches[n] = qs.patches[n]
       /\ r.e.unapplied = qs.unapplied
       /\ r.e.applied = IF tracked THEN qs.applied ELSE Append(qs.applied, name)

C21_Upsert == \A name \in Names, oid \in PatchOids : C21_UpsertOf(name, oid)

(* C22: initialize(Q, base) with the queue branch absent, when creating    *)
(* the initial log entry fails, returns an error (AlreadyExists("queuelog")  *)
(* when the log reference is there already), leaves the log reference as it  *)
(* was and leaves the queue branch it has just created in place.             *)
C22_Step ==
    last'.op = "initialize" =>
        \A q \in Queues, b \in BaseBranches, inj \in InitFailures \ {"branch"} :
            (/\ branches[q] = <<>>
             /\ logrefs[q] # <<>> \/ inj \in {"tree", "signature", "commit_write"}
             /\ last'.queue = q
             /\ Initialize(q, b, inj))
                => /\ last'.outcome \notin {"ok", "none"}
                   /\ logrefs[q] # <<>> => last'.outcome = "already_exists_queuelog"
                   /\ logrefs' = logrefs
                   /\ log' = log
                   /\ branches'[q] = <<BranchTip(b)>>

C22_LogCreationFails == [][C22_Step]_vars

\* the log reference a failed close left behind, met by initialize
C22_Witness ==
    /\ last.op = "initialize"
    /\ last.outcome = "already_exists_queuelog"
    /\ branches["work"] # <<>>
    /\ logrefs["work"] # <<>>

(* C23: wherever close() stops on a queue whose two references both      *)
(* exist (it returns, or fails or is cut short between the two deletions),   *)
(* the queue branch is never there with the log reference gone: the branch   *)
(* is deleted first, and the only partial outcome is the log reference       *)
(* without the branch.                                                       *)
C23_Step ==
    \A q \in Queues :
        (/\ last'.op \in {"close", "cli_close"}
         /\ last'.queue = q
         /\ branches[q] # <<>>
         /\ logrefs[q] # <<>>)
            => /\ ~(branches'[q] # <<>> /\ logrefs'[q] = <<>>)
               /\ branches'[q] \in {branches[q], <<>>}
               /\ logrefs'[q] \in {logrefs[q], <<>>}
               /\ last'.outcome \in {"err_find_ref", "err_ref_delete"}
                      => branches'[q] = <<>> /\ logrefs'[q] = logrefs[q]

C23_BranchFirst == [][C23_Step]_vars

\* close stopped between the two deletions
C23_Witness ==
    /\ last.op = "close"
    /\ last.outcome \in {"err_find_ref", "err_ref_delete"}
    /\ branches["work"] = <<>>
    /\ logrefs["work"] # <<>>

(* C24: current() returns none when there is no current branch; it hands  *)
(* the rest of the name to for_queue exactly when the short name of the      *)
(* current branch begins with `queues/`, and returns none for every other    *)
(* branch, a branch with `queues/` further inside its name included.         *)
C24_Current ==
    last.op = "current" =>
        IF current_branch = <<>> THEN last.outcome = "none" /\ held = <<>>
        ELSE LET name == BranchName(HEAD) IN
             IF Len(name) = 2 /\ name[1] = "queues"
             THEN /\ last.outcome = for_queue(name[2]).status
                  /\ held = for_queue(name[2]).queue
             ELSE last.outcome = "none" /\ held = <<>>

(* C25: of two writers that each derive a next state from the same        *)
(* committed entry L and call create_next, at most one moves the log         *)
(* reference: the tip only advances to an entry whose previous and first      *)
(* parent are the tip at the moment of the update, so the create_next of the *)
(* writer that comes second fails, and no entry leaves the chain.            *)
C25_Step ==
    \A q \in Queues :
        /\ (logrefs[q] # <<>> /\ logrefs'[q] # logrefs[q]) =>
               /\ logrefs'[q] # <<>>
               /\ logrefs'[q][1] \notin DOMAIN log
               /\ \A oid \in DOMAIN log : oid \in DOMAIN log' /\ log'[oid] = log[oid]
               /\ Decode(log'[logrefs'[q][1]].tree["meta"])[1].previous = logrefs[q]
               /\ log'[logrefs'[q][1]].parents[1] = logrefs[q][1]
        \* the writer whose state is no longer the tip
        /\ (/\ last'.op = "create_next"
            /\ last'.queue = q
            /\ held # <<>>
            /\ logrefs[q] # <<>>
            /\ held[1].state.oid # logrefs[q])
               => /\ last'.outcome # "ok"
                  /\ logrefs' = logrefs
                  /\ log' = log

C25_OneWriterWins == [][C25_Step]_vars

\* the second writer's create_next has failed: the tip is the entry the first
\* writer put on top of the entry both started from
C25_Witness ==
    /\ last.op = "create_next"
    /\ last.outcome = "err_commit_write"
    /\ held # <<>>
    /\ logrefs["work"] # <<>>
    /\ held[1].state.oid # logrefs["work"]
    /\ MetaOf(logrefs["work"][1]).previous = held[1].state.oid

(* C26: in `switch --create`, the initialize called after for_queue        *)
(* returned none for the same name does not return none, whatever another    *)
(* process does to the queue (initialize, close) between the two calls.      *)
C26_InitializeSome ==
    last.op = "cli_switch" => last.outcome # "panic_unwrap_none"

(* C27: when get_parent returns an error to pop (the only applied patch    *)
(* is being popped), pop returns that error and applied, unapplied, patches  *)
(* and head are as they were before the call.                                *)
C27_PopError ==
    (Len(qs.applied) = 1 /\ has_patch(qs, qs.applied[1])) =>
        LET r == pop(qs, "err") IN
        /\ r.status = "err"
        /\ r.e.applied = qs.applied
        /\ r.e.unapplied = qs.unapplied
        /\ r.e.patches = qs.patches
        /\ r.e.head = qs.head

(* C28: from a state that satisfies the head invariant, for every          *)
(* k <= |applied|, k successful pops followed by k pushes put applied,       *)
(* unapplied, patches and head back to what they were before the pops.       *)
C28_PopPushInverse ==
    C2_HeadInvariant =>
        \A k \in 0..Len(qs.applied) :
            LET popped == PopTimes(qs, k) IN
            popped.status = "ok" =>
                LET pushed == PushTimes(popped.e, k) IN
                /\ pushed.status = "ok"
                /\ pushed.e.applied = qs.applied
                /\ pushed.e.unapplied = qs.unapplied
                /\ pushed.e.patches = qs.patches
                /\ pushed.e.head = qs.head

\* two patches applied over a base, one unapplied: both can be popped, the
\* second pop asking get_parent
C28_Witness ==
    /\ C2_HeadInvariant
    /\ Len(qs.applied) = 2
    /\ Len(qs.unapplied) = 1
    /\ PopTimes(qs, 2).status = "ok"
    /\ PopTimes(qs, 2).e.head # qs.head
    /\ PopTimes(qs, 2).e.applied = <<>>
    /\ last.op = "push"

(* C29: after a successful close() of Q, initialize(Q, base) succeeds for  *)
(* any base branch and makes a fresh queue: the log reference points to a    *)
(* new initial entry with no previous, head = base = tip(base) and no        *)
(* patches, and nothing of the closed queue's log is carried over.           *)
C29_Step ==
    \A q \in Queues, b \in BaseBranches :
        (/\ last.op \in {"close", "cli_close"}
         /\ last.outcome = "ok"
         /\ last.queue = q
         /\ Initialize(q, b, "none"))
            => /\ last'.outcome = "ok"
               /\ branches'[q] = <<BranchTip(b)>>
               /\ logrefs'[q] # <<>>
               /\ logrefs'[q][1] \notin DOMAIN log
               /\ LET entry == log'[logrefs'[q][1]]
                      meta == Decode(entry.tree["meta"])[1]
                  IN /\ entry.parents = <<BranchTip(b)>>
                     /\ entry.tree = MapInsert(CommitTree(BranchTip(b)), "meta", entry.tree["meta"])
                     /\ meta.previous = <<>>
                     /\ meta.head = BranchTip(b)
                     /\ meta.base = BranchTip(b)
                     /\ meta.applied = <<>>
                     /\ meta.unapplied = <<>>
                     /\ DOMAIN meta.patches = {}

C29_FreshAfterClose == [][C29_Step]_vars

\* a queue made again on dev after the queue made on main was closed
C29_Witness ==
    /\ last.op = "initialize"
    /\ last.outcome = "ok"
    /\ nextId >= 2
    /\ "L1" \in DOMAIN log
    /\ MetaOf("L1").base = "C0"
    /\ logrefs["work"] # <<>>
    /\ logrefs["work"][1] # "L1"
    /\ IsInitialEntry(logrefs["work"][1])
    /\ MetaOf(logrefs["work"][1]).base = "C1"

====
